---- MODULE Spec2Model ----
(***************************************************************************)
(* Hybrid e-mail search: chunking, the embedding cache, the lexical and    *)
(* the semantic ranker, reciprocal rank fusion and the search tool that    *)
(* hands the fused list to the reranker (src/src/app/search.ts and the     *)
(* search tool in src/unnamed/part_000).                                   *)
(*                                                                         *)
(* A JavaScript number is modelled as an exact rational [n, d] with d > 0. *)
(* Every score the model computes is a small integer or 0 + 1/(60+r); on   *)
(* these values IEEE double arithmetic orders and equates exactly as the   *)
(* rationals do.                                                           *)
(***************************************************************************)
EXTENDS Integers, Sequences, FiniteSets, TLC

VARIABLES
  emails,              \* data/emails.json as loadEmails() returns it
  cache,               \* the embedding cache store: cache key -> vector
  world,               \* which embedding model the external generator computes
  entry,               \* the function the caller invokes
  keywords,            \* the keywords input  [given, value]
  searchQuery,         \* the query input     [given, value]
  embedFailAt,         \* ordinal of the embedMany call that fails (0: none)
  writeFailAt,         \* ordinal of the cache write that fails (0: none)
  pc,                  \* position of the running call
  runs,                \* number of calls started so far
  emailChunks,         \* chunkEmails(emails)
  k,                   \* loop index of the cache lookup loop (0-based)
  results,             \* loadOrGenerateEmbeddings: results
  uncachedEmailChunks, \* loadOrGenerateEmbeddings: uncachedEmailChunks
  i,                   \* loadOrGenerateEmbeddings: batch offset
  j,                   \* loadOrGenerateEmbeddings: index in the batch
  embeddings,          \* vectors embedMany returned for the current batch
  loaded,              \* what loadOrGenerateEmbeddings returned, <<>> before
  bm25Ranking,         \* result of the lexical pass
  embeddingsRanking,   \* result of the semantic pass
  rankings,            \* the argument of reciprocalRankFusion
  rrfRanking,          \* the result of reciprocalRankFusion
  rerankArg,           \* the candidates handed to rerankEmails
  output,              \* what the call returned
  error,               \* the failure the call propagated, "none" if none
  embedCalls,          \* every embedMany call so far: [run, offset, values]
  writeCalls,          \* every writeEmbeddingToCache call so far
  trace,               \* the positions the running call went through
  prev                 \* the previous call of this behaviour, as it ended

inputVars == <<emails, world, entry, keywords, searchQuery, embedFailAt, writeFailAt>>
loadVars  == <<k, results, uncachedEmailChunks, i, j, embeddings, loaded>>
rankVars  == <<bm25Ranking, embeddingsRanking, rankings, rrfRanking, rerankArg>>
histVars  == <<embedCalls, writeCalls, prev>>
vars == <<inputVars, cache, pc, runs, emailChunks, loadVars, rankVars, output,
          error, histVars, trace>>

(***************************************************************************)
(* Bounds of the model.                                                    *)
(***************************************************************************)
MaxRank == 2
MaxDocs == 2
MaxChunksPerDoc == 2
MediumDocs == 20
LargeDocs == 67
MaxRuns == 2
MaxEmbedFailAt == 2
MaxWriteFailAt == 2

(***************************************************************************)
(* Program constants.                                                      *)
(***************************************************************************)
RRF_K == 60
BATCH_SIZE == 99
NUMBER_PASSED_TO_RERANKER == 30
CACHE_KEY == "google-text-embedding-004"

(***************************************************************************)
(* JavaScript numbers and arrays.                                          *)
(***************************************************************************)
Num(x) == [n |-> x, d |-> 1]
Zero == Num(0)
NumAdd(a, b) == [n |-> a.n * b.d + b.n * a.d, d |-> a.d * b.d]
NumEq(a, b) == a.n * b.d = b.n * a.d
NumLt(a, b) == a.n * b.d < b.n * a.d
NumLe(a, b) == a.n * b.d <= b.n * a.d

Min(a, b) == IF a < b THEN a ELSE b

\* Array.prototype.slice(from, to), 0-based, to exclusive
Slice(arr, from, to) == SubSeq(arr, from + 1, Min(to, Len(arr)))

\* Array.prototype.sort((a, b) => b.score - a.score): stable, descending
SortDescTiesReversed(arr) ==
  LET n == Len(arr)
      pos == [x \in 1..n |->
                1 + Cardinality({y \in 1..n : NumLt(arr[x].score, arr[y].score)})
                  + Cardinality({y \in 1..n : y > x /\ NumEq(arr[y].score, arr[x].score)})]
  IN [p \in 1..n |-> arr[CHOOSE x \in 1..n : pos[x] = p]]

SortDesc(arr) ==
  LET n == Len(arr)
      pos == [x \in 1..n |->
                1 + Cardinality({y \in 1..n : NumLt(arr[x].score, arr[y].score)})
                  + Cardinality({y \in 1..n : y < x /\ NumEq(arr[y].score, arr[x].score)})]
  IN [p \in 1..n |-> arr[CHOOSE x \in 1..n : pos[x] = p]]

(***************************************************************************)
(* EmailChunk and reciprocalRankFusion.                                    *)
(***************************************************************************)
emailChunkToText(email) == email.subject \o " " \o email.chunk

\* `${item.email.id}-${item.email.index}`
ChunkKey(email) == email.id \o "-" \o ToString(email.index)

\* the identity of a fragment: (document id, fragment index)
Identity(email) == <<email.id, email.index>>

Contribution(rank) == [n |-> 1, d |-> RRF_K + rank]

\* the places <<a, b>> of the elements of the sequences of ss, in the order
\* in which nested loops over ss visit them
Places(ss) ==
  LET longest == IF Len(ss) = 0 THEN 0
                 ELSE Len(ss[CHOOSE a \in 1..Len(ss) : \A b \in 1..Len(ss) : Len(ss[b]) <= Len(ss[a])])
      grid == [n \in 1..(Len(ss) * longest) |->
                 <<((n - 1) \div longest) + 1, ((n - 1) % longest) + 1>>]
  IN SelectSeq(grid, LAMBDA p : p[2] <= Len(ss[p[1]]))

\* the (item, rank) pairs in the order rankings.forEach / ranking.forEach
\* visits them, rank 0-based
Visits(rs) ==
  LET places == Places(rs)
  IN [t \in 1..Len(places) |->
        [item |-> rs[places[t][1]][places[t][2]], rank |-> places[t][2] - 1]]

\* the last of the first t visits that did rrfScores.set(key, ...), 0 if none
LastSet(visits, key, t) ==
  LET at == {u \in 1..t : ChunkKey(visits[u].item.email) = key}
  IN IF at = {} THEN 0 ELSE CHOOSE u \in at : \A v \in at : v <= u

\* rrfScores.get(key) || 0 after the first t visits: the entry holds what the
\* last set stored, currentScore + contribution, where currentScore was read
\* under the plain document id of the item
RECURSIVE ScoreAfter(_, _, _)
ScoreAfter(visits, key, t) ==
  LET u == LastSet(visits, key, t)
  IN IF u = 0 THEN Zero
     ELSE NumAdd(ScoreAfter(visits, visits[u].item.email.id, u - 1),
                 Contribution(visits[u].rank))

\* the keys of rrfScores in insertion order
KeysInOrder(visits) ==
  LET firsts == SelectSeq([t \in 1..Len(visits) |-> t],
                          LAMBDA t : LastSet(visits, ChunkKey(visits[t].item.email), t - 1) = 0)
  IN [n \in 1..Len(firsts) |-> ChunkKey(visits[firsts[n]].item.email)]

\* Array.from(rrfScores.entries())
RrfEntries(visits) ==
  LET keys == KeysInOrder(visits)
  IN [p \in 1..Len(keys) |->
        [key |-> keys[p], score |-> ScoreAfter(visits, keys[p], Len(visits))]]

RrfSortTiesReversed(entries) == SortDescTiesReversed(entries)

RrfSort(entries) == SortDesc(entries)

reciprocalRankFusion(rs) ==
  LET visits == Visits(rs)
      sorted == RrfSort(RrfEntries(visits))
  IN [p \in 1..Len(sorted) |->
        [score |-> sorted[p].score,
         email |-> visits[LastSet(visits, sorted[p].key, Len(visits))].item.email]]

(***************************************************************************)
(* The corpus.  An e-mail's body is modelled as the list of fragments the  *)
(* external text splitter yields for it.  A corpus is generated from       *)
(* [nDocs, cpd, textMod, subjMod]: document d has subject number           *)
(* d % subjMod and its c-th fragment has text number                       *)
(* ((d-1)*cpd + c-1) % textMod, so that small moduli give fragments with   *)
(* identical subject + text.                                               *)
(***************************************************************************)
Subject(s) == "s" \o ToString(s)
ChunkText(c) == "c" \o ToString(c)

MakeEmail(cfg, d) ==
  [id      |-> "e" \o ToString(d),
   subject |-> Subject(d % cfg.subjMod),
   body    |-> [c \in 1..cfg.cpd |-> ChunkText(((d - 1) * cfg.cpd + c - 1) % cfg.textMod)]]

MakeEmails(cfg) == [d \in 1..cfg.nDocs |-> MakeEmail(cfg, d)]

SmallCorpora ==
  [nDocs : 1..MaxDocs, cpd : 1..MaxChunksPerDoc, textMod : {1, 4}, subjMod : {1, 2}]
DistinctCorpora == {cfg \in SmallCorpora : cfg.textMod = 4}
MediumCorpora ==
  {[nDocs |-> MediumDocs, cpd |-> 2, textMod |-> 2 * MediumDocs, subjMod |-> 1]}
LargeCorpora ==
  {[nDocs |-> LargeDocs, cpd |-> 3, textMod |-> 3 * LargeDocs, subjMod |-> 1]}

\* emailsWithChunks: one EmailChunk per fragment, e-mail after e-mail
chunkEmails(es) ==
  LET places == Places([d \in 1..Len(es) |-> es[d].body])
  IN [n \in 1..Len(places) |->
        LET email == es[places[n][1]]
            chunkIndex == places[n][2] - 1
        IN [id          |-> email.id,
            index       |-> chunkIndex,
            subject     |-> email.subject,
            chunk       |-> email.body[chunkIndex + 1],
            totalChunks |-> Len(email.body)]]

(***************************************************************************)
(* External collaborators: the embedding model, cosineSimilarity, BM25.    *)
(* Vectors are the four unit vectors of the plane, for which the cosine    *)
(* is the dot product.  The embedding model is a function of the text;     *)
(* `world` selects which one.                                              *)
(***************************************************************************)
MaxTextNum == 3 * LargeDocs + 3
AllTextParts == (0..1) \X (0..MaxTextNum)
TextOf(sc) == Subject(sc[1]) \o " " \o ChunkText(sc[2])
AllTexts == {TextOf(sc) : sc \in AllTextParts}
\* the subject number and the text number a text was built from
TextParts == [t \in AllTexts |-> CHOOSE sc \in AllTextParts : TextOf(sc) = t]

UnitVectors == <<<<1, 0>>, <<0, 1>>, <<-1, 0>>, <<0, -1>>>>

EmbedModel(w, text) ==
  UnitVectors[((TextParts[text][2] * (w + 1) + TextParts[text][1]) % 4) + 1]

Queries == {"c1", "C0 s1"}
QueryVector(w, q) == IF q = "c1" THEN UnitVectors[1 + w] ELSE UnitVectors[2 + w]

\* query.toLowerCase().split(" ")
SplitLower(q) == IF q = "c1" THEN <<"c1">> ELSE <<"c0", "s1">>

KeywordLists == {<<"c1">>, <<"c3", "s0">>}

cosineSimilarity(a, b) == Num(a[1] * b[1] + a[2] * b[2])

\* the lexical scoring primitive: how many keywords are a word of the text
BM25(text, kws) ==
  Num(Cardinality({x \in 1..Len(kws) :
        kws[x] \in {Subject(TextParts[text][1]), ChunkText(TextParts[text][2])}}))

(***************************************************************************)
(* The embedding cache store (@/app/embeddings).                           *)
(***************************************************************************)
CacheKeyOf(text) == <<CACHE_KEY, text>>
getCachedEmbedding(c, text) ==
  IF CacheKeyOf(text) \in DOMAIN c THEN c[CacheKeyOf(text)] ELSE <<>>
\* writeEmbeddingToCache: put(key, vector) -> success / failure
writeEmbeddingToCache(c, text, embedding, ok) ==
  IF ok THEN (CacheKeyOf(text) :> embedding) @@ c ELSE c

\* the cache a previous execution left: the corpus texts numbered >= from
CacheOf(w, chunks, from) ==
  LET texts == {emailChunkToText(chunks[x]) : x \in 1..Len(chunks)}
      kept  == {t \in texts : TextParts[t][2] >= from}
  IN [key \in {CacheKeyOf(t) : t \in kept} |-> EmbedModel(w, key[2])]

(***************************************************************************)
(* Starting a call.  A later call of the same behaviour repeats the        *)
(* request (a retry, or the same search again); the cache persists.        *)
(***************************************************************************)
None == [given |-> FALSE, value |-> <<>>]
Some(v) == [given |-> TRUE, value |-> v]

Ended == pc \in {"done", "failed"}

\* the call that just ended, as the next call of the behaviour remembers it
Snapshot ==
  [pc |-> pc, error |-> error, output |-> output,
   uncachedEmailChunks |-> uncachedEmailChunks, i |-> i,
   embeddingsRanking |-> embeddingsRanking,
   semanticEnded |-> \E p \in 1..Len(trace) : trace[p] = "semantic:end"]

NoPrev == [pc |-> "none"]

ResetLocals ==
  /\ k' = 0
  /\ results' = <<>>
  /\ uncachedEmailChunks' = <<>>
  /\ i' = 0
  /\ j' = 0
  /\ embeddings' = <<>>
  /\ loaded' = <<>>
  /\ bm25Ranking' = <<>>
  /\ embeddingsRanking' = <<>>
  /\ rankings' = <<>>
  /\ rrfRanking' = <<>>
  /\ rerankArg' = <<>>
  /\ output' = <<>>
  /\ error' = "none"

CanStart == (pc = "idle" \/ Ended) /\ runs < MaxRuns

\* a caller invokes loadOrGenerateEmbeddings(chunkEmails(emails))
StartLoad ==
  /\ CanStart
  /\ entry = "loadOrGenerateEmbeddings"
  /\ runs' = runs + 1
  /\ prev' = IF Ended THEN Snapshot ELSE NoPrev
  /\ emailChunks' = chunkEmails(emails)
  /\ ResetLocals
  /\ pc' = IF Len(emailChunks') = 0 THEN "done" ELSE "lookup"
  /\ trace' = <<>>
  /\ UNCHANGED <<inputVars, cache, embedCalls, writeCalls>>

\* searchWithRRF / searchTool.execute up to chunkEmails
StartSearch ==
  /\ CanStart
  /\ entry \in {"searchWithRRF", "searchTool"}
  /\ runs' = runs + 1
  /\ prev' = IF Ended THEN Snapshot ELSE NoPrev
  /\ emailChunks' = chunkEmails(emails)
  /\ ResetLocals
  /\ pc' = "chunked"
  /\ trace' = <<>>
  /\ UNCHANGED <<inputVars, cache, embedCalls, writeCalls>>

(***************************************************************************)
(* loadOrGenerateEmbeddings                                                *)
(***************************************************************************)
\* where the caller of loadOrGenerateEmbeddings continues with its result
AfterLoad == IF entry = "loadOrGenerateEmbeddings" THEN "done" ELSE "embedQuery"

\* one iteration of the lookup loop
Lookup ==
  /\ pc = "lookup"
  /\ k < Len(emailChunks)
  /\ LET emailChunk == emailChunks[k + 1]
         text == emailChunkToText(emailChunk)
         hit == CacheKeyOf(text) \in DOMAIN cache
         res == IF hit
                THEN Append(results, [id |-> emailChunk.id,
                                      embedding |-> getCachedEmbedding(cache, text)])
                ELSE results
         unc == IF hit THEN uncachedEmailChunks
                ELSE Append(uncachedEmailChunks, emailChunk)
         last == k + 1 = Len(emailChunks)
     IN /\ results' = res
        /\ uncachedEmailChunks' = unc
        /\ k' = k + 1
        /\ pc' = IF ~last THEN "lookup"
                 ELSE IF Len(unc) > 0 THEN "embed" ELSE AfterLoad
        /\ loaded' = IF last /\ Len(unc) = 0 THEN res ELSE loaded
        /\ output' = IF last /\ Len(unc) = 0 /\ entry = "loadOrGenerateEmbeddings"
                     THEN res ELSE output
  /\ UNCHANGED <<inputVars, cache, runs, emailChunks, i, j, embeddings, rankVars,
                 error, histVars, trace>>

Batch == Slice(uncachedEmailChunks, i, i + BATCH_SIZE)
BatchValues == [x \in 1..Len(Batch) |-> emailChunkToText(Batch[x])]

\* embedMany answers with one vector per value, in order
EmbedBatchOk ==
  /\ pc = "embed"
  /\ Len(embedCalls) + 1 # embedFailAt
  /\ embedCalls' = Append(embedCalls, [run |-> runs, offset |-> i, values |-> BatchValues])
  /\ embeddings' = [x \in 1..Len(Batch) |-> EmbedModel(world, BatchValues[x])]
  /\ j' = 0
  /\ pc' = "write"
  /\ UNCHANGED <<inputVars, cache, runs, emailChunks, k, results, uncachedEmailChunks,
                 i, loaded, rankVars, output, error, writeCalls, prev, trace>>

\* embedMany rejects, the rejection is caught and the results so far returned
EmbedBatchFailPartial ==
  /\ pc = "embed"
  /\ Len(embedCalls) + 1 = embedFailAt
  /\ embedCalls' = Append(embedCalls, [run |-> runs, offset |-> i, values |-> BatchValues])
  /\ pc' = AfterLoad
  /\ loaded' = results
  /\ output' = IF entry = "loadOrGenerateEmbeddings" THEN results ELSE output
  /\ UNCHANGED <<inputVars, cache, runs, emailChunks, k, results, uncachedEmailChunks,
                 i, j, embeddings, rankVars, error, writeCalls, prev, trace>>

\* embedMany rejects: nothing catches it, the call rejects
EmbedBatchFail ==
  /\ pc = "embed"
  /\ Len(embedCalls) + 1 = embedFailAt
  /\ embedCalls' = Append(embedCalls, [run |-> runs, offset |-> i, values |-> BatchValues])
  /\ pc' = "failed"
  /\ error' = "VectorGenerationFailure"
  /\ UNCHANGED <<inputVars, cache, runs, emailChunks, loadVars, rankVars, output,
                 writeCalls, prev, trace>>

PushGeneratedIfWritten(res, email, embedding, ok) ==
  IF ok THEN Append(res, [id |-> email.id, embedding |-> embedding]) ELSE res

\* results.push after the awaited cache write, whatever the write reported
PushGenerated(res, email, embedding, ok) ==
  Append(res, [id |-> email.id, embedding |-> embedding])

NextOffsetOverlap(at) == at + BATCH_SIZE - 1

\* the first batch offset after offset at
NextOffset(at) == at + BATCH_SIZE

\* one iteration of the write loop of the current batch
WriteStep(ok) ==
  /\ pc = "write"
  /\ j < Len(Batch)
  /\ LET email == Batch[j + 1]
         embedding == embeddings[j + 1]
         text == emailChunkToText(email)
         res == PushGenerated(results, email, embedding, ok)
         lastOfBatch == j + 1 = Len(Batch)
         more == NextOffset(i) < Len(uncachedEmailChunks)
     IN /\ cache' = writeEmbeddingToCache(cache, text, embedding, ok)
        /\ writeCalls' = Append(writeCalls,
              [run |-> runs, miss |-> i + j + 1, text |-> text,
               embedding |-> embedding, ok |-> ok])
        /\ results' = res
        /\ j' = IF lastOfBatch THEN 0 ELSE j + 1
        /\ i' = IF lastOfBatch THEN NextOffset(i) ELSE i
        /\ pc' = IF ~lastOfBatch THEN "write"
                 ELSE IF more THEN "embed" ELSE AfterLoad
        /\ loaded' = IF lastOfBatch /\ ~more THEN res ELSE loaded
        /\ output' = IF lastOfBatch /\ ~more /\ entry = "loadOrGenerateEmbeddings"
                     THEN res ELSE output
  /\ UNCHANGED <<inputVars, runs, emailChunks, k, uncachedEmailChunks, embeddings,
                 rankVars, error, embedCalls, prev, trace>>

WriteOk == Len(writeCalls) + 1 # writeFailAt /\ WriteStep(TRUE)
WriteFail == Len(writeCalls) + 1 = writeFailAt /\ WriteStep(FALSE)

(***************************************************************************)
(* The rankers, the fusion and the reranker call.                          *)
(***************************************************************************)
searchWithBM25(kws, chunks) ==
  SortDesc([idx \in 1..Len(chunks) |->
              [score |-> BM25(emailChunkToText(chunks[idx]), kws), email |-> chunks[idx]]])

\* emailChunks.find((e) => e.id === id)
FindById(chunks, id) ==
  chunks[CHOOSE x \in 1..Len(chunks) :
           /\ chunks[x].id = id
           /\ \A y \in 1..(x - 1) : chunks[y].id # id]

\* searchWithEmbeddings after loadOrGenerateEmbeddings returned emailEmbeddings
ScoreEmbeddings(query, chunks, emailEmbeddings) ==
  LET queryEmbedding == QueryVector(world, query)
  IN SortDesc([x \in 1..Len(emailEmbeddings) |->
                 [score |-> cosineSimilarity(queryEmbedding, emailEmbeddings[x].embedding),
                  email |-> FindById(chunks, emailEmbeddings[x].id)]])

\* the lexical pass, and the call of searchWithEmbeddings that follows it
Lexical ==
  /\ pc = "chunked"
  /\ bm25Ranking' =
       IF entry = "searchWithRRF"
       THEN searchWithBM25(SplitLower(searchQuery.value), emailChunks)
       ELSE IF keywords.given THEN searchWithBM25(keywords.value, emailChunks)
       ELSE <<>>
  /\ LET ran == entry = "searchWithRRF" \/ keywords.given
         semantic == entry = "searchWithRRF" \/ searchQuery.given
     IN /\ trace' = trace \o <<IF ran THEN "lexical:end" ELSE "lexical:skip",
                               IF semantic THEN "semantic:start" ELSE "semantic:skip">>
        /\ pc' = IF ~semantic THEN "semanticDone"
                 ELSE IF Len(emailChunks) = 0 THEN "embedQuery" ELSE "lookup"
  /\ UNCHANGED <<inputVars, cache, runs, emailChunks, loadVars, embeddingsRanking,
                 rankings, rrfRanking, rerankArg, output, error, histVars>>

\* embed(query) answers; the similarity scores are computed and sorted
EmbedQuery ==
  /\ pc = "embedQuery"
  /\ embeddingsRanking' = ScoreEmbeddings(searchQuery.value, emailChunks, loaded)
  /\ trace' = Append(trace, "semantic:end")
  /\ pc' = "semanticDone"
  /\ UNCHANGED <<inputVars, cache, runs, emailChunks, loadVars, bm25Ranking,
                 rankings, rrfRanking, rerankArg, output, error, histVars>>

\* the position at which the caller calls reciprocalRankFusion
FuseReadyEarly == pc \in {"lookup", "semanticDone"}

FuseReady == pc = "semanticDone"

\* the rankings the caller passes to reciprocalRankFusion
FusionInput ==
  IF entry = "searchTool"
  THEN <<Slice(bm25Ranking, 0, NUMBER_PASSED_TO_RERANKER),
         Slice(embeddingsRanking, 0, NUMBER_PASSED_TO_RERANKER)>>
  ELSE <<bm25Ranking, embeddingsRanking>>

Fuse ==
  /\ FuseReady
  /\ rankings' = FusionInput
  /\ rrfRanking' = reciprocalRankFusion(rankings')
  /\ trace' = Append(trace, "fusion")
  /\ pc' = IF entry = "searchTool" THEN "fused" ELSE "done"
  /\ output' = IF entry = "searchTool" THEN output ELSE rrfRanking'
  /\ UNCHANGED <<inputVars, cache, runs, emailChunks, loadVars, bm25Ranking,
                 embeddingsRanking, rerankArg, error, histVars>>

RerankCandidatesUncapped(fused) == fused

\* rrfResults.slice(0, NUMBER_PASSED_TO_RERANKER)
RerankCandidates(fused) == Slice(fused, 0, NUMBER_PASSED_TO_RERANKER)

topEmails(reranked) ==
  [x \in 1..Len(reranked) |->
     [id |-> reranked[x].email.id, subject |-> reranked[x].email.subject,
      body |-> reranked[x].email.chunk, score |-> reranked[x].score]]

\* rerankEmails answers with some of its candidates (here: all, or none)
RerankOk ==
  /\ pc = "fused"
  /\ rerankArg' = RerankCandidates(rrfRanking)
  /\ \E n \in {0, Len(rerankArg')} : output' = topEmails(SubSeq(rerankArg', 1, n))
  /\ trace' = Append(trace, "rerank")
  /\ pc' = "done"
  /\ UNCHANGED <<inputVars, cache, runs, emailChunks, loadVars, bm25Ranking,
                 embeddingsRanking, rankings, rrfRanking, error, histVars>>

\* rerankEmails rejects: the failure is the caller's
RerankFail ==
  /\ pc = "fused"
  /\ rerankArg' = RerankCandidates(rrfRanking)
  /\ trace' = Append(trace, "rerank")
  /\ pc' = "failed"
  /\ error' = "RerankerFailure"
  /\ UNCHANGED <<inputVars, cache, runs, emailChunks, loadVars, bm25Ranking,
                 embeddingsRanking, rankings, rrfRanking, output, histVars>>

\* reciprocalRankFusion called on its own
FuseDirect ==
  /\ pc = "call"
  /\ rrfRanking' = reciprocalRankFusion(rankings)
  /\ output' = rrfRanking'
  /\ pc' = "done"
  /\ UNCHANGED <<inputVars, cache, runs, emailChunks, loadVars, bm25Ranking,
                 embeddingsRanking, rankings, rerankArg, error, histVars, trace>>

(***************************************************************************)
(* Initial states and specifications.                                      *)
(***************************************************************************)
InitLocals ==
  /\ pc = "idle"
  /\ runs = 0
  /\ emailChunks = <<>>
  /\ k = 0
  /\ results = <<>>
  /\ uncachedEmailChunks = <<>>
  /\ i = 0
  /\ j = 0
  /\ embeddings = <<>>
  /\ loaded = <<>>
  /\ bm25Ranking = <<>>
  /\ embeddingsRanking = <<>>
  /\ rankings = <<>>
  /\ rrfRanking = <<>>
  /\ rerankArg = <<>>
  /\ output = <<>>
  /\ error = "none"
  /\ embedCalls = <<>>
  /\ writeCalls = <<>>
  /\ trace = <<>>
  /\ prev = NoPrev

\* the cache holds the corpus texts numbered >= from: all, all but c0, none
CacheFroms == {0, 1, MaxTextNum + 1}

Worlds == {0, 1}
FailFree == {0}

InitWorld(corpora, worlds, embedFails, writeFails) ==
  \E cfg \in corpora, from \in CacheFroms :
    /\ emails = MakeEmails(cfg)
    /\ world \in worlds
    /\ cache = CacheOf(world, chunkEmails(emails), from)
    /\ embedFailAt \in embedFails
    /\ writeFailAt \in writeFails

InitLoad ==
  /\ InitWorld(SmallCorpora \cup LargeCorpora, {0}, 0..MaxEmbedFailAt, 0..MaxWriteFailAt)
  /\ entry = "loadOrGenerateEmbeddings"
  /\ keywords = None
  /\ searchQuery = None
  /\ InitLocals

\* the requests of the search entry points
SearchInputs ==
  /\ entry \in {"searchWithRRF", "searchTool"}
  /\ keywords \in {None} \cup {Some(kl) : kl \in KeywordLists}
  /\ searchQuery \in {None} \cup {Some(q) : q \in Queries}
  /\ entry = "searchWithRRF" => searchQuery.given /\ ~keywords.given

\* one request, for the executions in which a collaborator fails and for
\* the corpus of more fragments than the reranker is handed
OneSearchInput ==
  /\ entry \in {"searchWithRRF", "searchTool"}
  /\ keywords = IF entry = "searchTool" THEN Some(<<"c3", "s0">>) ELSE None
  /\ searchQuery = Some("c1")

InitSearch ==
  /\ \/ /\ InitWorld(DistinctCorpora, Worlds, FailFree, FailFree)
        /\ SearchInputs
     \/ /\ InitWorld(DistinctCorpora, {0}, 0..MaxEmbedFailAt, 0..MaxWriteFailAt)
        /\ embedFailAt + writeFailAt > 0
        /\ OneSearchInput
     \/ /\ InitWorld(MediumCorpora, Worlds, FailFree, FailFree)
        /\ OneSearchInput
  /\ InitLocals

\* the fragments the rankings of the fusion on its own are drawn from
FusionChunks ==
  {[id |-> d, index |-> x, subject |-> "s0", chunk |-> ChunkText(x), totalChunks |-> 2] :
     d \in {"e1", "e2", "e3"}, x \in 0..1}

\* the rankings of at most n items free of duplicate fragments
RankingsUpTo(n) ==
  UNION {{[x \in 1..len |-> [score |-> Num(len - x), email |-> f[x]]] :
            f \in {g \in [1..len -> FusionChunks] :
                     \A x, y \in 1..len : x # y => g[x] # g[y]}} :
         len \in 0..n}

InitRRF ==
  /\ emails = <<>>
  /\ world = 0
  /\ cache = <<>>
  /\ embedFailAt = 0
  /\ writeFailAt = 0
  /\ entry = "reciprocalRankFusion"
  /\ keywords = None
  /\ searchQuery = None
  /\ pc = "call"
  /\ runs = 1
  /\ emailChunks = <<>>
  /\ k = 0
  /\ results = <<>>
  /\ uncachedEmailChunks = <<>>
  /\ i = 0
  /\ j = 0
  /\ embeddings = <<>>
  /\ loaded = <<>>
  /\ bm25Ranking = <<>>
  /\ embeddingsRanking = <<>>
  /\ rankings \in RankingsUpTo(MaxRank) \X RankingsUpTo(MaxRank)
  /\ rrfRanking = <<>>
  /\ rerankArg = <<>>
  /\ output = <<>>
  /\ error = "none"
  /\ embedCalls = <<>>
  /\ writeCalls = <<>>
  /\ trace = <<>>
  /\ prev = NoPrev

NextLoad == StartLoad \/ Lookup \/ EmbedBatchOk \/ EmbedBatchFail \/ WriteOk \/ WriteFail

NextSearch ==
  \/ StartSearch \/ Lexical
  \/ Lookup \/ EmbedBatchOk \/ EmbedBatchFail \/ WriteOk \/ WriteFail
  \/ EmbedQuery \/ Fuse \/ RerankOk \/ RerankFail

NextRRF == FuseDirect

SpecLoad == InitLoad /\ [][NextLoad]_vars
SpecSearch == InitSearch /\ [][NextSearch]_vars
SpecRRF == InitRRF /\ [][NextRRF]_vars

(***************************************************************************)
(* Reciprocal rank fusion on its own (SpecRRF).                            *)
(***************************************************************************)
InRanking(ranking, id) == \E x \in 1..Len(ranking) : Identity(ranking[x].email) = id

\* 1/(60 + r) for the rank r at which the ranking holds the fragment, else 0
ContributionIn(ranking, id) ==
  IF InRanking(ranking, id)
  THEN Contribution((CHOOSE x \in 1..Len(ranking) : Identity(ranking[x].email) = id) - 1)
  ELSE Zero

RECURSIVE SumOfContributions(_, _, _)
SumOfContributions(rs, id, n) ==
  IF n = 0 THEN Zero
  ELSE NumAdd(SumOfContributions(rs, id, n - 1), ContributionIn(rs[n], id))

InputIdentities(rs) ==
  {Identity(rs[r][x].email) : <<r, x>> \in {<<r, x>> \in (1..Len(rs)) \X (0..2 * MaxRank + 2) :
                                              x \in 1..Len(rs[r])}}

Occurrences(ranked, id) == {p \in 1..Len(ranked) : Identity(ranked[p].email) = id}

\* C1: every fragment identity of any input ranking appears exactly once in
\* the fused output, with the sum of its per-ranking contributions 1/(60+r)
\* as its score.
C1_FusionComplete ==
  (entry = "reciprocalRankFusion" /\ pc = "done") =>
    \A id \in InputIdentities(rankings) :
      /\ Cardinality(Occurrences(rrfRanking, id)) = 1
      /\ \A p \in Occurrences(rrfRanking, id) :
           NumEq(rrfRanking[p].score, SumOfContributions(rankings, id, Len(rankings)))

\* the position at which the iteration over the rankings first meets id
FirstEncounter(rs, id) ==
  LET r == CHOOSE r \in 1..Len(rs) :
             InRanking(rs[r], id) /\ \A q \in 1..(r - 1) : ~InRanking(rs[q], id)
      x == CHOOSE x \in 1..Len(rs[r]) : Identity(rs[r][x].email) = id
  IN <<r, x>>

Before(a, b) == a[1] < b[1] \/ (a[1] = b[1] /\ a[2] < b[2])

\* C8: the fused output is ordered by non-increasing fused score, and
\* fragments of equal fused score keep the order in which the iteration over
\* the input rankings first met them.
C8_FusedOrder ==
  (entry = "reciprocalRankFusion" /\ pc = "done") =>
    \A p, q \in 1..Len(rrfRanking) :
      p < q =>
        /\ NumLe(rrfRanking[q].score, rrfRanking[p].score)
        /\ NumEq(rrfRanking[q].score, rrfRanking[p].score) =>
             Before(FirstEncounter(rankings, Identity(rrfRanking[p].email)),
                    FirstEncounter(rankings, Identity(rrfRanking[q].email)))

\* a fused output that holds two fragments of equal score and two of
\* different scores
C8_Witness ==
  /\ entry = "reciprocalRankFusion"
  /\ pc = "done"
  /\ \E p, q \in 1..Len(rrfRanking) :
       p < q /\ NumEq(rrfRanking[p].score, rrfRanking[q].score)
  /\ \E p, q \in 1..Len(rrfRanking) :
       p < q /\ NumLt(rrfRanking[q].score, rrfRanking[p].score)

(***************************************************************************)
(* The semantic ranker (SpecSearch).                                       *)
(***************************************************************************)
SemanticEnded == \E p \in 1..Len(trace) : trace[p] = "semantic:end"

\* C2: searchWithEmbeddings returns exactly one scored candidate per input
\* fragment identity, and it pairs that fragment with the cosine similarity
\* of the query vector and the vector of the fragment's own text.
C2_OneCandidatePerFragment ==
  SemanticEnded =>
    \A x \in 1..Len(emailChunks) :
      /\ Cardinality(Occurrences(embeddingsRanking, Identity(emailChunks[x]))) = 1
      /\ \A p \in Occurrences(embeddingsRanking, Identity(emailChunks[x])) :
           /\ embeddingsRanking[p].email = emailChunks[x]
           /\ embeddingsRanking[p].score =
                cosineSimilarity(QueryVector(world, searchQuery.value),
                                 EmbedModel(world, emailChunkToText(emailChunks[x])))

\* C6: a later run of the semantic ranker on the same query and the same
\* fragments yields the same order as the run before it, whatever the cache
\* held when each run started.
C6_SameOrderOnRerun ==
  (SemanticEnded /\ prev.pc # "none" /\ prev.semanticEnded) =>
    embeddingsRanking = prev.embeddingsRanking

(***************************************************************************)
(* loadOrGenerateEmbeddings (SpecLoad).                                    *)
(***************************************************************************)
CallsOf(r) == SelectSeq(embedCalls, LAMBDA c : c.run = r)
WritesOf(r) == SelectSeq(writeCalls, LAMBDA w : w.run = r)
TextsOf(chunks) == [m \in 1..Len(chunks) |-> emailChunkToText(chunks[m])]
NHits == Len(emailChunks) - Len(uncachedEmailChunks)
Cached(text, embedding) ==
  CacheKeyOf(text) \in DOMAIN cache /\ cache[CacheKeyOf(text)] = embedding

\* C3: in executions without a failing collaborator, no text is sent to
\* the external vector generator more than once, over all calls.
C3_EmbeddedAtMostOnce ==
  (embedFailAt = 0 /\ writeFailAt = 0) =>
    \A c1, c2 \in 1..Len(embedCalls) :
      \A x \in 1..Len(embedCalls[c1].values), y \in 1..Len(embedCalls[c2].values) :
        <<c1, x>> # <<c2, y>> => embedCalls[c1].values[x] # embedCalls[c2].values[y]

EmbedFailed == embedFailAt \in 1..Len(embedCalls)
FailedCall == embedCalls[embedFailAt]

\* C4: when embedMany fails on a batch, the call returns nothing and
\* propagates the failure; the cache writes of that call are exactly those of
\* the misses before the failed batch, and what they wrote stays in the
\* cache; the next call sends the generator only texts of the fragments from
\* the failed batch onward (or of a fragment whose cache write had failed).
C4_BatchFailure ==
  EmbedFailed =>
    LET f == FailedCall
        writes == WritesOf(f.run)
    IN /\ runs = f.run =>
            pc = "failed" /\ error = "VectorGenerationFailure"
              /\ output = <<>> /\ loaded = <<>>
       /\ Len(writes) = f.offset
       /\ \A p \in 1..Len(writes) :
            /\ writes[p].miss = p
            /\ writes[p].ok => Cached(writes[p].text, writes[p].embedding)
       /\ runs = f.run + 1 =>
            \A c \in 1..Len(CallsOf(runs)) :
              \A x \in 1..Len(CallsOf(runs)[c].values) :
                \/ \E m \in (f.offset + 1)..Len(prev.uncachedEmailChunks) :
                     emailChunkToText(prev.uncachedEmailChunks[m]) = CallsOf(runs)[c].values[x]
                \/ \E p \in 1..Len(writes) :
                     ~writes[p].ok /\ writes[p].text = CallsOf(runs)[c].values[x]

\* the call after one that failed on its second batch has asked the generator
\* for the rest
C4_Witness ==
  /\ EmbedFailed
  /\ FailedCall.offset >= BATCH_SIZE
  /\ runs = FailedCall.run + 1
  /\ Len(CallsOf(runs)) > 0
  /\ pc = "done"

C9_SequentialBatches ==
  LET calls == CallsOf(runs)
      writes == WritesOf(runs)
      missTexts == TextsOf(uncachedEmailChunks)
  IN /\ \A n \in 1..Len(calls) :
          /\ Len(calls[n].values) \in 1..BATCH_SIZE
          /\ calls[n].offset = IF n = 1 THEN 0
                               ELSE calls[n - 1].offset + Len(calls[n - 1].values)
          /\ calls[n].offset + Len(calls[n].values) <= Len(missTexts)
          /\ calls[n].values =
               SubSeq(missTexts, calls[n].offset + 1, calls[n].offset + Len(calls[n].values))
          /\ Len(writes) >= calls[n].offset
     /\ Len(calls) = 0 => Len(writes) = 0
     /\ Len(calls) > 0 =>
          Len(writes) <= calls[Len(calls)].offset + Len(calls[Len(calls)].values)
     /\ (pc = "done" /\ Len(uncachedEmailChunks) > 0) =>
          /\ Len(calls) > 0
          /\ calls[Len(calls)].offset + Len(calls[Len(calls)].values) = Len(missTexts)
          /\ Len(writes) = Len(missTexts)
     /\ Len(writes) <= Len(missTexts)
     /\ \A p \in 1..Len(writes) :
          /\ NHits + p <= Len(results)
          /\ writes[p].miss = p
          /\ writes[p].text = missTexts[p]
          /\ writes[p].embedding = EmbedModel(world, missTexts[p])
          /\ writes[p].ok => Cached(missTexts[p], writes[p].embedding)
          /\ results[NHits + p] =
               [id |-> uncachedEmailChunks[p].id, embedding |-> writes[p].embedding]

\* a call that returned after three batches
C9_Witness ==
  /\ pc = "done"
  /\ Len(CallsOf(runs)) >= 3
  /\ Len(WritesOf(runs)) = Len(uncachedEmailChunks)

(***************************************************************************)
(* The pipeline (SpecSearch).                                              *)
(***************************************************************************)
Happened(event) == \E p \in 1..Len(trace) : trace[p] = event
HappenedBefore(events, p) == \E q \in 1..(p - 1) : trace[q] \in events

\* C7: the reranker is handed at most 30 candidates: the first 30 of the
\* fused list in its order, or all of it when it holds fewer.
C7_RerankerCap ==
  Happened("rerank") =>
    /\ Len(rerankArg) <= 30
    /\ Len(rerankArg) = Min(30, Len(rrfRanking))
    /\ \A p \in 1..Len(rerankArg) : rerankArg[p] = rrfRanking[p]

\* the reranker was called on a fused list of more than 30 items
C7_Witness ==
  /\ Happened("rerank")
  /\ Len(rrfRanking) > 30
  /\ Len(rerankArg) = 30

\* C10: the fusion starts only after the lexical pass and the semantic pass
\* ended (or were skipped), on the rankings they returned; the reranker is
\* called only after the fusion.
C10_JoinBeforeFusion ==
  /\ \A p \in 1..Len(trace) :
       /\ trace[p] = "fusion" =>
            /\ HappenedBefore({"lexical:end", "lexical:skip"}, p)
            /\ HappenedBefore({"semantic:end", "semantic:skip"}, p)
            /\ HappenedBefore({"semantic:start"}, p) => HappenedBefore({"semantic:end"}, p)
       /\ trace[p] = "rerank" => HappenedBefore({"fusion"}, p)
  /\ Happened("fusion") => rankings = FusionInput
  /\ Happened("semantic:end") => loaded # <<>> \/ Len(emailChunks) = 0

\* the search tool returned after both passes, the fusion and the reranker
C10_Witness ==
  /\ entry = "searchTool"
  /\ pc = "done"
  /\ trace = <<"lexical:end", "semantic:start", "semantic:end", "fusion", "rerank">>
  /\ Len(uncachedEmailChunks) > 0

====
